---- MODULE Spec2Model ----
(***************************************************************************)
(* Chunked upload reassembly of src/app/evaluation/widgets/uploader.py:    *)
(* the StagedFile table, the upload handlers of AjaxUploadWidget, the      *)
(* cleanup routine, StagedAjaxFile, IntervalMap and OpenedStagedAjaxFile.  *)
(***************************************************************************)
EXTENDS Integers, Sequences, FiniteSets, TLC

\* ------------------------------------------------------------------ bounds

\* Byte offsets of the files of the store specification are 0..MaxByte.
MaxByte == 1
\* Rows ever created in the StagedFile table during one behaviour of the
\* store specification.
MaxRows == 3
\* The clock runs over 0..MaxTime (hours).
MaxTime == 3

\* Byte offsets of the files of the size specification are 0..MaxSizeByte,
\* and a file has at most MaxSizeRows rows there.
MaxSizeByte == 2
MaxSizeRows == 2
\* read is called with counts 0..MaxCount.
MaxCount == 2

\* The interval map specification: up to MaxIntervals intervals of 1..MaxLen
\* bytes each.
MaxLen == 3
MaxIntervals == 3

\* self.timeout = timedelta(hours=2)
Retention == 2
\* len(client_id) > 128
MaxClientIdLen == 128

\* Python's None, in a field that else holds a number (total_size) and in one
\* that else holds a string (client_id, a filename).
None == -1
NoneStr == "None"

\* request.META['CSRF_COOKIE'] values (the tenant scope) are "s1", "s2";
\* X-Upload-ID values are "g1", "g2" and "long", which stands for an id of
\* more than 128 characters; uploaded_file.name values are "a.bin", "b.bin".
LongId == "long"

\* The length of a client id: only "long" exceeds the limit.
IdLen(cid) == IF cid = LongId THEN MaxClientIdLen + 1 ELSE 2

Min(a, b) == IF a <= b THEN a ELSE b

\* The client's file: the byte at offset k has the value k, so that every
\* offset is told apart by its content.  An uploaded payload of `size` bytes
\* sent for the range starting at `start` is the slice from `start`.
Payload(start, size) == [i \in 1..size |-> start + i - 1]

VARIABLES
    chunks,        \* the rows of the StagedFile table
    now,           \* timezone.now()
    nextId,        \* the primary key the next created row gets
    nextUuid,      \* the next value uuid.uuid4() returns (always fresh)
    response,      \* what the last call returned or raised
    procs,         \* the concurrent upload calls in flight (SpecConc)
    reader,        \* the OpenedStagedAjaxFile instance, if one was opened
    handles,       \* the open payload files: row id and position in the file
    rlast,         \* the last call on the reader, with its arguments and result
    rhist          \* the bytes the reads returned to the caller since open,
                   \* and whether the caller has only called read so far

storeVars == <<chunks, now, nextId, nextUuid, response>>
readerVars == <<reader, handles, rlast, rhist>>
vars == <<chunks, now, nextId, nextUuid, response, procs, reader, handles, rlast, rhist>>

\* ------------------------------------------------------------- chunk store

\* StagedFile.objects.create(...)
NewChunk(id, csrf, client_id, name, file_id, timeout, data, start_byte, end_byte, total_size) ==
    [id |-> id, csrf |-> csrf, client_id |-> client_id, client_filename |-> name,
     file_id |-> file_id, timeout |-> timeout, file |-> data,
     start_byte |-> start_byte, end_byte |-> end_byte, total_size |-> total_size]

\* Mutant: the rows of the upload id under every csrf token.
OtherChunksAnyScope(store, csrf, client_id) ==
    {c \in store : c.client_id = client_id}

\* StagedFile.objects.filter(csrf=csrf_token, client_id=client_id)
OtherChunks(store, csrf, client_id) ==
    {c \in store : c.csrf = csrf /\ c.client_id = client_id}

\* StagedFile.objects.filter(file_id=uuid)
ChunksOf(store, uuid) == {c \in store : c.file_id = uuid}

\* Mutant: the ranges taken as half-open, so that sharing one byte is no overlap.
ChunkIntersectsStrict(c, start_byte, end_byte) ==
    c.start_byte < end_byte /\ c.end_byte > start_byte

\* filter(start_byte__lte=end_byte, end_byte__gte=start_byte)
ChunkIntersects(c, start_byte, end_byte) ==
    c.start_byte <= end_byte /\ c.end_byte >= start_byte

\* ---------------------------------------------------------- _handle_chunked

\* The Content-Range header of a request: absent, empty, not matching the
\* regular expression, or "bytes <start>-<end>/<length>" with length a number
\* or "*".
Star == -2
NoRange(kind) == [kind |-> kind, start |-> 0, end |-> 0, length |-> 0]
Bytes(start, end, length) ==
    [kind |-> "bytes", start |-> start, end |-> end, length |-> length]

\* Lines 126-146: the range checks, in the order of the code.  The result is
\* "" when the range is accepted, else the exception raised.  int("*") raises
\* ValueError, and a header the expression does not match has no groups
\* (AttributeError): neither is an InvalidRequestException.
CheckRange(hdr, size) ==
    IF hdr.kind = "empty" THEN "Client did not supply Content-Range"
    ELSE IF hdr.kind = "malformed" THEN "AttributeError"
    ELSE IF hdr.length = Star THEN "ValueError"
    ELSE IF hdr.start > hdr.end THEN "Supplied invalid Content-Range"
    ELSE IF hdr.end >= hdr.length THEN "End byte exceeds total file size"
    ELSE IF hdr.end - hdr.start + 1 # size THEN "Invalid start-end byte range"
    ELSE ""

\* Lines 148-157.
CheckClientId(client_id) ==
    IF client_id = NoneStr THEN "Client did not supply a X-Upload-ID"
    ELSE IF IdLen(client_id) > MaxClientIdLen THEN "X-Upload-ID is too long"
    ELSE ""

\* Mutant: only the new chunk's first byte is looked up in the stored ranges.
CheckOverlapStartOnly(other, start_byte, end_byte) ==
    IF \E c \in other : c.start_byte <= start_byte /\ start_byte <= c.end_byte
    THEN "Overlapping chunks" ELSE ""

\* Mutants: the filename, or the total size, is not compared.
CheckFilenameSkipped(other, name) == ""
CheckTotalSizeSkipped(other, total_size) == ""

\* Lines 165-181: the consistency checks against the chunks of the group.
CheckOverlap(other, start_byte, end_byte) ==
    IF \E c \in other : ChunkIntersects(c, start_byte, end_byte)
    THEN "Overlapping chunks" ELSE ""

CheckFilename(other, name) ==
    IF \E c \in other : c.client_filename # name
    THEN "Chunks have inconsistent filenames" ELSE ""

CheckTotalSize(other, total_size) ==
    IF total_size # None
       /\ \E c \in other : c.total_size # None /\ c.total_size # total_size
    THEN "Inconsistent total size" ELSE ""

\* Lines 159-183 run against one state of the table.
CheckConsistency(other, hdr, name) ==
    IF other = {} THEN ""
    ELSE IF CheckOverlap(other, hdr.start, hdr.end) # ""
         THEN CheckOverlap(other, hdr.start, hdr.end)
    ELSE IF CheckFilename(other, name) # "" THEN CheckFilename(other, name)
    ELSE CheckTotalSize(other, hdr.length)

\* The exception _handle_chunked ends with, "" when it stores the chunk.
ChunkedError(store, csrf, hdr, client_id, name, size) ==
    IF CheckRange(hdr, size) # "" THEN CheckRange(hdr, size)
    ELSE IF CheckClientId(client_id) # "" THEN CheckClientId(client_id)
    ELSE CheckConsistency(OtherChunks(store, csrf, client_id), hdr, name)

\* Mutant: every chunk mints an id of its own.
FileIdAlwaysFresh(other, fresh) == {fresh + Cardinality(other)}

\* file_id = uuid.uuid4() for the first chunk of a group, else
\* other_chunks[0].file_id: the rows come in no stated order.
FileIdChoices(other, fresh) ==
    IF other = {} THEN {fresh} ELSE {c.file_id : c \in other}

\* What a call returned (error = "") or the exception it raised.
Ok(name, uuid) == [error |-> "", filename |-> name, uuid |-> uuid, size |-> None]
Failed(msg) == [error |-> msg, filename |-> NoneStr, uuid |-> 0, size |-> None]
Returned == [error |-> "", filename |-> NoneStr, uuid |-> 0, size |-> None]
Sized(uuid, size) == [error |-> "", filename |-> NoneStr, uuid |-> uuid, size |-> size]

\* handle_ajax with a Content-Range header and one uploaded file.  At most
\* `cap` rows are created in one behaviour.
UploadChunked(cap, csrf, hdr, client_id, name, size) ==
    /\ hdr.kind # "absent"
    /\ LET err == ChunkedError(chunks, csrf, hdr, client_id, name, size)
           other == OtherChunks(chunks, csrf, client_id)
       IN IF err # ""
          THEN /\ response' = Failed(err)
               /\ UNCHANGED <<chunks, now, nextId, nextUuid>>
          ELSE /\ nextId <= cap
               /\ \E fid \in FileIdChoices(other, nextUuid) :
                    /\ chunks' = chunks \cup
                          {NewChunk(nextId, csrf, client_id, name, fid, now + Retention,
                                    Payload(hdr.start, size), hdr.start, hdr.end, hdr.length)}
                    /\ nextUuid' = IF other = {} THEN nextUuid + 1 ELSE nextUuid
                    /\ response' = Ok(name, fid)
               /\ nextId' = nextId + 1
               /\ UNCHANGED now
    /\ UNCHANGED <<procs, reader, handles, rlast, rhist>>

\* -------------------------------------------------------- _handle_complete

\* Mutant: a whole file takes the file_id of a stored chunk of its tenant
\* scope and filename when there is one.
UploadCompleteReuse(cap, csrf, name, size) ==
    /\ nextId <= cap
    /\ LET same == {c \in chunks : c.csrf = csrf /\ c.client_filename = name}
           file_id == IF same = {} THEN nextUuid
                      ELSE (CHOOSE c \in same : \A d \in same : c.id <= d.id).file_id
       IN /\ chunks' = chunks \cup
                {NewChunk(nextId, csrf, NoneStr, name, file_id, now + Retention,
                          Payload(0, size), 0, size - 1, size)}
          /\ response' = Ok(name, file_id)
    /\ nextId' = nextId + 1
    /\ nextUuid' = nextUuid + 1
    /\ UNCHANGED now
    /\ UNCHANGED <<procs, reader, handles, rlast, rhist>>

\* handle_ajax without a Content-Range header: the file is one chunk.
UploadComplete(cap, csrf, name, size) ==
    /\ nextId <= cap
    /\ chunks' = chunks \cup
          {NewChunk(nextId, csrf, NoneStr, name, nextUuid, now + Retention,
                    Payload(0, size), 0, size - 1, size)}
    /\ nextId' = nextId + 1
    /\ nextUuid' = nextUuid + 1
    /\ response' = Ok(name, nextUuid)
    /\ UNCHANGED now
    /\ UNCHANGED <<procs, reader, handles, rlast, rhist>>

\* ------------------------------------------------------ cleanup_stale_files

\* Mutant: a chunk is stale from its timeout on.
StaleFromTimeout(store, t) == {c \in store : c.timeout <= t}

\* Mutant: a chunk is stale only while the first byte of its file is stored.
StaleWithFirstByte(store, t) ==
    {c \in store : c.timeout < t
                    /\ \E d \in store : d.file_id = c.file_id /\ d.start_byte = 0}

\* StagedFile.objects.filter(timeout__lt=now)
Stale(store, t) == {c \in store : c.timeout < t}

Sweep ==
    /\ chunks' = chunks \ Stale(chunks, now)
    /\ response' = Returned
    /\ UNCHANGED <<now, nextId, nextUuid>>
    /\ UNCHANGED <<procs, reader, handles, rlast, rhist>>

\* Time passes.
Tick ==
    /\ now < MaxTime
    /\ now' = now + 1
    /\ UNCHANGED <<chunks, nextId, nextUuid, response>>
    /\ UNCHANGED <<procs, reader, handles, rlast, rhist>>

\* ------------------------------------------------------------ StagedAjaxFile

\* Mutant: only the first row of the file is deleted.
DeleteFirstRow(uuid) ==
    /\ IF ChunksOf(chunks, uuid) = {}
       THEN /\ response' = Failed("NotFoundError")
            /\ UNCHANGED chunks
       ELSE /\ chunks' = chunks \ {CHOOSE c \in ChunksOf(chunks, uuid) :
                                      \A d \in ChunksOf(chunks, uuid) : c.id <= d.id}
            /\ response' = Returned
    /\ UNCHANGED <<now, nextId, nextUuid>>
    /\ UNCHANGED <<procs, reader, handles, rlast, rhist>>

\* StagedAjaxFile.delete
Delete(uuid) ==
    /\ IF ChunksOf(chunks, uuid) = {}
       THEN /\ response' = Failed("NotFoundError")
            /\ UNCHANGED chunks
       ELSE /\ chunks' = chunks \ ChunksOf(chunks, uuid)
            /\ response' = Returned
    /\ UNCHANGED <<now, nextId, nextUuid>>
    /\ UNCHANGED <<procs, reader, handles, rlast, rhist>>

\* StagedAjaxFile.size, lines 437-438: sorted(chunks, key=lambda x: x.start_byte).
\* Rows with equal start_byte keep the order of the query, taken as that of
\* the primary key.
RECURSIVE SortByStart(_)
SortByStart(S) ==
    IF S = {} THEN <<>>
    ELSE LET c == CHOOSE x \in S : \A y \in S :
                     \/ x.start_byte < y.start_byte
                     \/ (x.start_byte = y.start_byte /\ x.id <= y.id)
         IN <<c>> \o SortByStart(S \ {c})

\* QuerySet.first(): the row with the lowest primary key.
First(S) == CHOOSE x \in S : \A y \in S : x.id <= y.id

\* Mutant: a later start than expected is let through, only an earlier one
\* ends the loop.
RECURSIVE SizeLoopGapBlind(_, _, _, _, _)
SizeLoopGapBlind(sorted, i, current_size, verify, remaining_size) ==
    IF i > Len(sorted)
    THEN IF verify /\ remaining_size # 0 THEN None ELSE current_size
    ELSE IF sorted[i].start_byte < current_size THEN None
    ELSE SizeLoopGapBlind(sorted, i + 1, sorted[i].end_byte + 1, verify,
                          remaining_size - (sorted[i].end_byte - sorted[i].start_byte + 1))

\* Mutant: without a declared total size the file is never complete.
RECURSIVE SizeLoopNeedsTotal(_, _, _, _, _)
SizeLoopNeedsTotal(sorted, i, current_size, verify, remaining_size) ==
    IF i > Len(sorted)
    THEN IF ~verify \/ remaining_size # 0 THEN None ELSE current_size
    ELSE IF sorted[i].start_byte # current_size THEN None
    ELSE SizeLoopNeedsTotal(sorted, i + 1, sorted[i].end_byte + 1, verify,
                            remaining_size - (sorted[i].end_byte - sorted[i].start_byte + 1))

\* Mutant: the declared total size is not compared with the end of the run.
RECURSIVE SizeLoopNoFinalCheck(_, _, _, _, _)
SizeLoopNoFinalCheck(sorted, i, current_size, verify, remaining_size) ==
    IF i > Len(sorted) THEN current_size
    ELSE IF sorted[i].start_byte # current_size THEN None
    ELSE SizeLoopNoFinalCheck(sorted, i + 1, sorted[i].end_byte + 1, verify,
                              remaining_size - (sorted[i].end_byte - sorted[i].start_byte + 1))

\* StagedAjaxFile.size, lines 437-449: the loop over the sorted chunks from
\* the i-th on and the final check.  `verify` is "remaining_size is not None".
RECURSIVE SizeLoop(_, _, _, _, _)
SizeLoop(sorted, i, current_size, verify, remaining_size) ==
    IF i > Len(sorted)
    THEN IF verify /\ remaining_size # 0 THEN None ELSE current_size
    ELSE IF sorted[i].start_byte # current_size THEN None
    ELSE SizeLoop(sorted, i + 1, sorted[i].end_byte + 1, verify,
                  remaining_size - (sorted[i].end_byte - sorted[i].start_byte + 1))

\* Mutant: the chunks are walked in the order of their primary keys.
RECURSIVE SortById(_)
SortById(S) ==
    IF S = {} THEN <<>> ELSE <<First(S)>> \o SortById(S \ {First(S)})

\* The order in which StagedAjaxFile.size walks the chunks.
SizeOrder(S) == SortByStart(S)

\* StagedAjaxFile.size for the rows S of one file_id (S is not empty): the
\* size, or None.
Size(S) ==
    LET total_sized_chunks == {c \in S : c.total_size # None}
        verify == total_sized_chunks # {}
        remaining_size == IF verify THEN First(total_sized_chunks).total_size ELSE 0
    IN SizeLoop(SizeOrder(S), 1, 0, verify, remaining_size)

\* StagedAjaxFile.is_complete
IsComplete(store, uuid) ==
    IF ChunksOf(store, uuid) = {} THEN FALSE ELSE Size(ChunksOf(store, uuid)) # None

\* The size property read by a caller.
QuerySize(uuid) ==
    /\ response' = IF ChunksOf(chunks, uuid) = {} THEN Failed("NotFoundError")
                   ELSE Sized(uuid, Size(ChunksOf(chunks, uuid)))
    /\ UNCHANGED <<chunks, now, nextId, nextUuid>>
    /\ UNCHANGED <<procs, reader, handles, rlast, rhist>>

\* The name property read by a caller: the filename of the first row.
QueryName(uuid) ==
    /\ response' = IF ChunksOf(chunks, uuid) = {} THEN Failed("NotFoundError")
                   ELSE Ok(First(ChunksOf(chunks, uuid)).client_filename, uuid)
    /\ UNCHANGED <<chunks, now, nextId, nextUuid>>
    /\ UNCHANGED <<procs, reader, handles, rlast, rhist>>

\* ------------------------------------------- _handle_chunked, step by step

\* Two request-serving threads.  Each runs _handle_chunked query by query:
\* len(other_chunks) evaluates and caches the rows of the group, each of the
\* three .exists() checks is a query of its own against the table as it is
\* then, other_chunks[0] reads the cached rows, and objects.create inserts.
Procs == {1, 2}

\* A request with a Content-Range header and one uploaded file.
Request(csrf, hdr, client_id, name, size) ==
    [csrf |-> csrf, hdr |-> hdr, client_id |-> client_id, name |-> name, size |-> size]

Idle == [pc |-> "idle", req |-> Request(NoneStr, NoRange("absent"), NoneStr, NoneStr, 0),
         other |-> {}, file_id |-> 0]

At(p, pc, r, other, file_id) ==
    [procs EXCEPT ![p] = [pc |-> pc, req |-> r, other |-> other, file_id |-> file_id]]

\* Lines 126-163: the range and id checks, then len(other_chunks).
Begin(p, r) ==
    /\ procs[p].pc = "idle"
    /\ r.hdr.kind # "absent"
    /\ LET err == IF CheckRange(r.hdr, r.size) # "" THEN CheckRange(r.hdr, r.size)
                  ELSE CheckClientId(r.client_id)
           other == OtherChunks(chunks, r.csrf, r.client_id)
       IN IF err # ""
          THEN /\ response' = Failed(err)
               /\ UNCHANGED <<procs, nextUuid>>
          ELSE IF other = {}
          THEN /\ procs' = At(p, "create", r, other, nextUuid)
               /\ nextUuid' = nextUuid + 1
               /\ UNCHANGED response
          ELSE /\ procs' = At(p, "overlap", r, other, 0)
               /\ UNCHANGED <<response, nextUuid>>
    /\ UNCHANGED <<chunks, now, nextId>>
    /\ UNCHANGED <<reader, handles, rlast, rhist>>

\* One of the three checks of lines 165-181, run against the table as it is
\* now; `next` is where the call goes on when the check passes.
Query(p, pc, err, next) ==
    /\ procs[p].pc = pc
    /\ IF err # ""
       THEN /\ response' = Failed(err)
            /\ procs' = [procs EXCEPT ![p] = Idle]
       ELSE /\ procs' = [procs EXCEPT ![p].pc = next]
            /\ UNCHANGED response
    /\ UNCHANGED <<chunks, now, nextId, nextUuid>>
    /\ UNCHANGED <<reader, handles, rlast, rhist>>

\* The rows of the call's group in the table as it is now.
Current(p) == OtherChunks(chunks, procs[p].req.csrf, procs[p].req.client_id)

\* Lines 165-168.
QueryOverlap(p) ==
    Query(p, "overlap",
          CheckOverlap(Current(p), procs[p].req.hdr.start, procs[p].req.hdr.end),
          "filename")

\* Lines 170-174.
QueryFilename(p) ==
    Query(p, "filename", CheckFilename(Current(p), procs[p].req.name), "total")

\* Lines 176-181.
QueryTotalSize(p) ==
    Query(p, "total", CheckTotalSize(Current(p), procs[p].req.hdr.length), "file_id")

\* Line 183: file_id = other_chunks[0].file_id, from the cached rows.
TakeFileId(p) ==
    /\ procs[p].pc = "file_id"
    /\ \E fid \in FileIdChoices(procs[p].other, 0) :
          procs' = [procs EXCEPT ![p].pc = "create", ![p].file_id = fid]
    /\ UNCHANGED <<chunks, now, nextId, nextUuid, response>>
    /\ UNCHANGED <<reader, handles, rlast, rhist>>

\* Lines 185-203: StagedFile.objects.create and the returned dict.
Create(cap, p) ==
    /\ procs[p].pc = "create"
    /\ nextId <= cap
    /\ LET r == procs[p].req
       IN /\ chunks' = chunks \cup
                {NewChunk(nextId, r.csrf, r.client_id, r.name, procs[p].file_id,
                          now + Retention, Payload(r.hdr.start, r.size),
                          r.hdr.start, r.hdr.end, r.hdr.length)}
          /\ response' = Ok(r.name, procs[p].file_id)
    /\ nextId' = nextId + 1
    /\ procs' = [procs EXCEPT ![p] = Idle]
    /\ UNCHANGED <<now, nextUuid>>
    /\ UNCHANGED <<reader, handles, rlast, rhist>>

\* ---------------------------------------------------------------- the store

\* --------------------------------------------------------------- IntervalMap

\* IntervalMap.__endpoints is a sequence of <<endpoint, label>>; a label is
\* the primary key of the chunk.  NoLabel is the None of __getitem__ and
\* NoIndex the None of __find_endpoint_index.
NoLabel == 0
NoIndex == -1

\* IntervalMap.__len__
MapLen(endpoints) ==
    IF endpoints = <<>> THEN 0 ELSE endpoints[Len(endpoints)][1]

\* list.sort() of the endpoint tuples after one append: the new tuple moves
\* before every tuple with a greater endpoint.
RECURSIVE SortLast(_)
SortLast(endpoints) ==
    LET n == Len(endpoints) IN
    IF n < 2 \/ endpoints[n - 1][1] <= endpoints[n][1] THEN endpoints
    ELSE Append(SortLast(SubSeq(endpoints, 1, n - 2) \o <<endpoints[n]>>),
                endpoints[n - 1])

\* IntervalMap.append_interval
AppendInterval(endpoints, length, label) ==
    SortLast(Append(endpoints, <<MapLen(endpoints) + length, label>>))

\* Mutant: the bisection keeps an interval that ends at the offset.
RECURSIVE FindInclusive(_, _, _, _)
FindInclusive(endpoints, i, start, end) ==
    IF start = end THEN start
    ELSE LET mid == (start + end) \div 2 IN
         IF endpoints[mid + 1][1] >= i
         THEN FindInclusive(endpoints, i, start, mid)
         ELSE FindInclusive(endpoints, i, mid + 1, end)

\* find(start, end) of __find_endpoint_index, over 0-based indices.
RECURSIVE Find(_, _, _, _)
Find(endpoints, i, start, end) ==
    IF start = end THEN start
    ELSE LET mid == (start + end) \div 2 IN
         IF endpoints[mid + 1][1] > i
         THEN Find(endpoints, i, start, mid)
         ELSE Find(endpoints, i, mid + 1, end)

\* IntervalMap.__find_endpoint_index
FindEndpointIndex(endpoints, i) ==
    IF i >= MapLen(endpoints) THEN NoIndex ELSE Find(endpoints, i, 0, Len(endpoints))

\* IntervalMap.__getitem__
GetItem(endpoints, i) ==
    LET endpoint_index == FindEndpointIndex(endpoints, i) IN
    IF endpoint_index = NoIndex THEN NoLabel ELSE endpoints[endpoint_index + 1][2]

\* ------------------------------------------------------ OpenedStagedAjaxFile

NoReader ==
    [state |-> "none", uuid |-> 0, chunk_list |-> <<>>, chunk_map |-> <<>>,
     file_pointer |-> 0, current_chunk |-> NoLabel]

\* A call on the reader: its argument, from_what, the bytes it returned and
\* the exception it raised or returned.
Call(op, arg, from_what, out, err) ==
    [op |-> op, arg |-> arg, from_what |-> from_what, out |-> out, err |-> err]
NoCall == Call("none", 0, 0, <<>>, "")
NoHistory == [sequential |-> TRUE, bytes |-> <<>>]

\* The for loop of OpenedStagedAjaxFile.__init__ from the i-th chunk on.
RECURSIVE BuildMap(_, _, _)
BuildMap(chunk_list, i, endpoints) ==
    IF i > Len(chunk_list) THEN endpoints
    ELSE BuildMap(chunk_list, i + 1,
                  AppendInterval(endpoints,
                                 chunk_list[i].end_byte - chunk_list[i].start_byte + 1,
                                 chunk_list[i].id))

\* Mutant: the chunks stay in the order of the query.
LoadChunksUnsorted(S) == SortById(S)

\* self.__chunks: the rows of the file in the order of the query (by primary
\* key), then sorted by start_byte.
LoadChunks(S) == SortByStart(S)

\* StagedAjaxFile.open followed by OpenedStagedAjaxFile.__init__
Open(uuid) ==
    /\ reader.state = "none"
    /\ IF ~IsComplete(chunks, uuid)
       THEN /\ rlast' = Call("open", uuid, 0, <<>>, "IOError")
            /\ UNCHANGED <<reader, rhist>>
       ELSE /\ reader' = [state |-> "open", uuid |-> uuid,
                          chunk_list |-> LoadChunks(ChunksOf(chunks, uuid)),
                          chunk_map |-> BuildMap(LoadChunks(ChunksOf(chunks, uuid)), 1, <<>>),
                          file_pointer |-> 0, current_chunk |-> NoLabel]
            /\ rlast' = Call("open", uuid, 0, <<>>, "")
            /\ rhist' = NoHistory
    /\ UNCHANGED <<chunks, now, nextId, nextUuid, response, procs, handles>>

\* StagedAjaxFile.open up to its return statement: the queries of
\* is_complete.  A reader that passed is at "checked", about to be built.
OpenCheck(uuid) ==
    /\ reader.state = "none"
    /\ IF ~IsComplete(chunks, uuid)
       THEN /\ rlast' = Call("open", uuid, 0, <<>>, "IOError")
            /\ UNCHANGED reader
       ELSE /\ reader' = [NoReader EXCEPT !.state = "checked", !.uuid = uuid]
            /\ UNCHANGED rlast
    /\ UNCHANGED <<chunks, now, nextId, nextUuid, response, procs, handles, rhist>>

\* OpenedStagedAjaxFile.__init__: its own query for the rows of the file,
\* on the table as it is now.
OpenLoad ==
    /\ reader.state = "checked"
    /\ reader' = [state |-> "open", uuid |-> reader.uuid,
                  chunk_list |-> LoadChunks(ChunksOf(chunks, reader.uuid)),
                  chunk_map |-> BuildMap(LoadChunks(ChunksOf(chunks, reader.uuid)), 1, <<>>),
                  file_pointer |-> 0, current_chunk |-> NoLabel]
    /\ rlast' = Call("open", reader.uuid, 0, <<>>, "")
    /\ rhist' = NoHistory
    /\ UNCHANGED <<chunks, now, nextId, nextUuid, response, procs, handles>>

\* The chunk of self.__chunks with the given primary key.
ChunkOf(chunk_list, label) ==
    chunk_list[CHOOSE i \in 1..Len(chunk_list) : chunk_list[i].id = label]

\* Mutant: the payload is read from its first byte, whatever the position.
FileReadFromStart(data, pos, read_size) == SubSeq(data, 1, Min(read_size, Len(data)))

\* file.read(read_size) on a payload at position pos.
FileRead(data, pos, read_size) == SubSeq(data, pos + 1, Min(pos + read_size, Len(data)))

\* Mutant: the payload file of the chunk that is left stays open.
CloseNothing(open, current_chunk) == open

\* self.__current_chunk.file.close(), when current_chunk is not None: `open`
\* is the set of open payload files, each with the row id and its position.
CloseCurrent(open, current_chunk) == {h \in open : h.id # current_chunk}

\* this_chunk.file.open('rb') and this_chunk.file.seek(pos)
OpenAt(open, this_chunk, pos) == open \cup {[id |-> this_chunk, pos |-> pos]}

\* The position of the open payload file of a chunk.
HandlePos(open, label) == (CHOOSE h \in open : h.id = label).pos

\* The payload file of a chunk moved to a position.
MoveTo(open, label, pos) ==
    {h \in open : h.id # label} \cup {[id |-> label, pos |-> pos]}

\* The while loop of OpenedStagedAjaxFile.read.  st holds file_pointer,
\* current_chunk, the open payload files and the result.
RECURSIVE ReadLoop(_, _, _)
ReadLoop(r, st, count) ==
    IF Len(st.result) >= count \/ st.file_pointer >= MapLen(r.chunk_map) THEN st
    ELSE LET this_chunk == GetItem(r.chunk_map, st.file_pointer)
             switch == this_chunk # st.current_chunk
             chunk == ChunkOf(r.chunk_list, this_chunk)
             open == IF switch
                     THEN OpenAt(CloseCurrent(st.open, st.current_chunk), this_chunk,
                                 st.file_pointer - chunk.start_byte)
                     ELSE st.open
             pos == HandlePos(open, this_chunk)
             read_size == Min(count - Len(st.result), chunk.end_byte + 1 - st.file_pointer)
             got == FileRead(chunk.file, pos, read_size)
         IN ReadLoop(r, [file_pointer |-> st.file_pointer + read_size,
                         current_chunk |-> this_chunk,
                         open |-> MoveTo(open, this_chunk, pos + Len(got)),
                         result |-> st.result \o got], count)

\* OpenedStagedAjaxFile.read(count)
Read(count) ==
    /\ reader.state \in {"open", "closed"}
    /\ IF reader.state = "closed"
       THEN /\ rlast' = Call("read", count, 0, <<>>, "IOError")
            /\ UNCHANGED <<reader, handles, rhist>>
       ELSE IF ~(0 <= reader.file_pointer /\ reader.file_pointer < MapLen(reader.chunk_map))
       THEN /\ rlast' = Call("read", count, 0, <<>>, "EOFError returned")
            /\ UNCHANGED <<reader, handles, rhist>>
       ELSE LET st == ReadLoop(reader,
                               [file_pointer |-> reader.file_pointer,
                                current_chunk |-> reader.current_chunk,
                                open |-> handles, result |-> <<>>], count)
            IN /\ reader' = [reader EXCEPT !.file_pointer = st.file_pointer,
                                           !.current_chunk = st.current_chunk]
               /\ handles' = st.open
               /\ rlast' = Call("read", count, 0, st.result, "")
               /\ rhist' = IF rhist.sequential
                           THEN [rhist EXCEPT !.bytes = @ \o st.result]
                           ELSE rhist
    /\ UNCHANGED <<chunks, now, nextId, nextUuid, response, procs>>

\* Mutant: every offset is taken from the start of the file.
NewPointerFromStart(offset, from_what, file_pointer, size) == offset

\* new_pointer of OpenedStagedAjaxFile.seek, for from_what 0, 1 and 2.
NewPointer(offset, from_what, file_pointer, size) ==
    IF from_what = 0 THEN offset
    ELSE IF from_what = 1 THEN file_pointer + offset
    ELSE size + offset

\* OpenedStagedAjaxFile.seek(offset, from_what)
Seek(offset, from_what) ==
    /\ reader.state \in {"open", "closed"}
    /\ IF reader.state = "closed"
       THEN /\ rlast' = Call("seek", offset, from_what, <<>>, "IOError")
            /\ UNCHANGED <<reader, rhist>>
       ELSE LET new_pointer == NewPointer(offset, from_what, reader.file_pointer,
                                          MapLen(reader.chunk_map))
            IN IF ~(0 <= new_pointer /\ new_pointer <= MapLen(reader.chunk_map))
               THEN /\ rlast' = Call("seek", offset, from_what, <<>>, "EOFError")
                    /\ UNCHANGED <<reader, rhist>>
               ELSE /\ reader' = [reader EXCEPT !.file_pointer = new_pointer]
                    /\ rlast' = Call("seek", offset, from_what, <<>>, "")
                    /\ rhist' = [sequential |-> FALSE, bytes |-> <<>>]
    /\ UNCHANGED <<chunks, now, nextId, nextUuid, response, procs, handles>>

\* OpenedStagedAjaxFile.tell: the position is returned as the one element
\* of out.
Tell ==
    /\ reader.state \in {"open", "closed"}
    /\ rlast' = IF reader.state = "closed" THEN Call("tell", 0, 0, <<>>, "IOError")
                ELSE Call("tell", 0, 0, <<reader.file_pointer>>, "")
    /\ UNCHANGED <<chunks, now, nextId, nextUuid, response, procs, reader, handles, rhist>>

\* Mutant: close forgets the chunks but leaves the payload file open.
CloseKeepsSource ==
    /\ reader.state \in {"open", "closed"}
    /\ reader' = [reader EXCEPT !.state = "closed", !.chunk_list = <<>>,
                                !.current_chunk = NoLabel]
    /\ rlast' = Call("close", 0, 0, <<>>, "")
    /\ UNCHANGED <<chunks, now, nextId, nextUuid, response, procs, handles, rhist>>

\* OpenedStagedAjaxFile.close
Close ==
    /\ reader.state \in {"open", "closed"}
    /\ IF reader.state = "closed"
       THEN UNCHANGED <<reader, handles>>
       ELSE /\ reader' = [reader EXCEPT !.state = "closed", !.chunk_list = <<>>,
                                        !.current_chunk = NoLabel]
            /\ handles' = IF reader.current_chunk = NoLabel THEN handles
                          ELSE CloseCurrent(handles, reader.current_chunk)
    /\ rlast' = Call("close", 0, 0, <<>>, "")
    /\ UNCHANGED <<chunks, now, nextId, nextUuid, response, procs, rhist>>


Init ==
    /\ chunks = {}
    /\ now = 0
    /\ nextId = 1
    /\ nextUuid = 1
    /\ response = Returned
    /\ procs = [p \in Procs |-> Idle]
    /\ reader = NoReader
    /\ handles = {}
    /\ rlast = NoCall
    /\ rhist = NoHistory

\* Every range over the offsets with every total of `totals`, sent with a
\* payload of the range's length.
RangedRequests(scopes, ids, names, offsets, totals) ==
    {Request(csrf, Bytes(s, e, t), cid, name, e - s + 1) :
        csrf \in scopes, cid \in ids, name \in names,
        s \in offsets, e \in offsets, t \in totals}

\* The requests of the store specification: every range for the group
\* ("s1", "g1"), the whole file for the group ("s1", "g2"), and two requests
\* that intersect every chunk of ("s1", "g1") and fail the range checks.
StoreRequests ==
    RangedRequests({"s1"}, {"g1"}, {"a.bin"}, 0..MaxByte, {MaxByte + 1})
        \cup {Request("s1", Bytes(0, MaxByte, MaxByte + 1), "g2", "a.bin", MaxByte + 1),
              Request("s1", Bytes(0, MaxByte, Star), "g1", "a.bin", MaxByte + 1),
              Request("s1", Bytes(0, MaxByte, MaxByte + 1), "g1", "a.bin", MaxByte)}

Next ==
    \/ \E r \in StoreRequests :
            UploadChunked(MaxRows, r.csrf, r.hdr, r.client_id, r.name, r.size)
    \/ \E uuid \in 1..MaxRows : Delete(uuid)
    \/ Sweep
    \/ Tick

Spec == Init /\ [][Next]_vars

\* The requests of the concurrent specification: every range of one file for
\* one upload group, with a total size of MaxByte + 1 or of MaxByte bytes.
ConcRequests ==
    RangedRequests({"s1"}, {"g1"}, {"a.bin"}, 0..MaxByte, {MaxByte, MaxByte + 1})

NextConc ==
    \/ \E p \in Procs, r \in ConcRequests : Begin(p, r)
    \/ \E p \in Procs : QueryOverlap(p)
    \/ \E p \in Procs : QueryFilename(p)
    \/ \E p \in Procs : QueryTotalSize(p)
    \/ \E p \in Procs : TakeFileId(p)
    \/ \E p \in Procs : Create(MaxRows, p)

\* Upload calls of two threads, interleaved query by query.
SpecConc == Init /\ [][NextConc]_vars

\* The requests of the reconciling specification, all for the group
\* ("s1", "g1"): every range over the offsets, also those with start > end,
\* under two filenames and two total sizes; a range that ends at its total
\* size; and a range sent with a payload one byte too long.
ReconRequests ==
    RangedRequests({"s1"}, {"g1"}, {"a.bin", "b.bin"}, 0..MaxByte,
                   {MaxByte + 1, MaxByte + 2})
        \cup {Request("s1", Bytes(0, MaxByte, MaxByte), "g1", "a.bin", MaxByte + 1),
              Request("s1", Bytes(0, 0, MaxByte + 1), "g1", "a.bin", 2)}

\* Whole files are uploaded empty or with MaxByte + 1 bytes.
ReconSizes == {0, MaxByte + 1}

\* The rows created in one behaviour of the reconciling specification: one
\* fewer than in the store specification, its requests being more varied.
ReconRows == MaxRows - 1

NextRecon ==
    \/ \E r \in ReconRequests :
          UploadChunked(ReconRows, r.csrf, r.hdr, r.client_id, r.name, r.size)
    \/ \E size \in ReconSizes : UploadComplete(ReconRows, "s1", "c.bin", size)
    \/ \E uuid \in 1..ReconRows : Delete(uuid)
    \/ \E uuid \in 1..ReconRows : QuerySize(uuid)
    \/ \E uuid \in 1..ReconRows : QueryName(uuid)

\* Uploads in chunks and of whole files, with the queries and the deletion
\* of StagedAjaxFile.
SpecRecon == Init /\ [][NextRecon]_vars

\* Uploads of one file of MaxByte + 1 bytes in chunks, in any order, or of a
\* whole file of that size, up to ReaderRows rows; then one reader of one of
\* the files.  Uploads end when the reader is opened: it works on the rows it
\* loaded.
ReaderRequests == RangedRequests({"s1"}, {"g1"}, {"a.bin"}, 0..MaxByte, {MaxByte + 1})
ReaderRows == MaxByte + 1

NextReader ==
    \/ \E r \in ReaderRequests :
          reader.state = "none" /\ UploadChunked(ReaderRows, r.csrf, r.hdr, r.client_id, r.name, r.size)
    \/ reader.state = "none" /\ UploadComplete(ReaderRows, "s1", "b.bin", MaxByte + 1)
    \/ \E uuid \in 1..ReaderRows : Open(uuid)
    \/ \E count \in 0..MaxCount : Read(count)
    \/ \E from_what \in 0..2 : \E offset \in (0 - MaxByte - 1)..(MaxByte + 2) :
          Seek(offset, from_what)
    \/ Tell
    \/ Close

\* Uploads, then reads and seeks on one opened file.
SpecReader == Init /\ [][NextReader]_vars

\* The size specification starts from up to MaxSizeRows rows of the
\* file_id 1, each with a range start <= end within 0..MaxSizeByte and a
\* total_size that is None or exceeds end, in every order of creation.
SizeShapes ==
    {sh \in [start : 0..MaxSizeByte, end : 0..MaxSizeByte,
             total : {None} \cup (1..(MaxSizeByte + 1))] :
        sh.start <= sh.end /\ (sh.total = None \/ sh.end < sh.total)}

SizeRow(i, sh) ==
    NewChunk(i, "s1", "g1", "a.bin", 1, Retention,
             Payload(sh.start, sh.end - sh.start + 1), sh.start, sh.end, sh.total)

InitSize ==
    /\ \E k \in 1..MaxSizeRows : \E q \in [1..k -> SizeShapes] :
          chunks = {SizeRow(i, q[i]) : i \in 1..k}
    /\ now = 0
    /\ nextId = MaxSizeRows + 1
    /\ nextUuid = 2
    /\ response = Returned
    /\ procs = [p \in Procs |-> Idle]
    /\ reader = NoReader
    /\ handles = {}
    /\ rlast = NoCall
    /\ rhist = NoHistory

NextSize == \E uuid \in 1..2 : QuerySize(uuid)

\* The size query on every table of one file.
SpecSize == InitSize /\ [][NextSize]_vars

\* The interval map specification starts from a map built as
\* OpenedStagedAjaxFile.__init__ builds it, from up to MaxIntervals rows of
\* 1..MaxLen bytes each, appended in order; the label of a row is its id.
\* The empty map is among them.
RECURSIVE SumLengths(_, _)
SumLengths(q, j) == IF j = 0 THEN 0 ELSE SumLengths(q, j - 1) + q[j]

MapRows(q) ==
    [j \in 1..Len(q) |->
        NewChunk(j, "s1", "g1", "a.bin", 1, Retention,
                 Payload(SumLengths(q, j - 1), q[j]),
                 SumLengths(q, j - 1), SumLengths(q, j) - 1, None)]

InitMap ==
    /\ \E k \in 0..MaxIntervals : \E q \in [1..k -> 1..MaxLen] :
          reader = [state |-> "map", uuid |-> 1, chunk_list |-> MapRows(q),
                    chunk_map |-> BuildMap(MapRows(q), 1, <<>>),
                    file_pointer |-> 0, current_chunk |-> NoLabel]
    /\ chunks = {}
    /\ now = 0
    /\ nextId = MaxIntervals + 1
    /\ nextUuid = 2
    /\ response = Returned
    /\ procs = [p \in Procs |-> Idle]
    /\ handles = {}
    /\ rlast = NoCall
    /\ rhist = NoHistory

\* IntervalMap.__getitem__ called on the map of the reader.
Lookup(i) ==
    /\ reader.state = "map"
    /\ rlast' = Call("lookup", i, 0, <<GetItem(reader.chunk_map, i)>>, "")
    /\ UNCHANGED <<reader, handles, rhist>>
    /\ UNCHANGED <<chunks, now, nextId, nextUuid, response, procs>>

NextMap == \E i \in 0..(MaxIntervals * MaxLen + 1) : Lookup(i)

\* Lookups on every interval map.
SpecMap == InitMap /\ [][NextMap]_vars

\* The requests of the tenant specification: two csrf tokens send every
\* range of a file under the same upload id, the first under two filenames
\* and the second under one of them.
TenantRequests ==
    RangedRequests({"s1"}, {"g1"}, {"a.bin", "b.bin"}, 0..MaxByte, {MaxByte + 1})
        \cup RangedRequests({"s2"}, {"g1"}, {"b.bin"}, 0..MaxByte, {MaxByte + 1})

NextTenant ==
    \E r \in TenantRequests :
        UploadChunked(MaxRows, r.csrf, r.hdr, r.client_id, r.name, r.size)

\* Uploads of two sessions that use the same upload id.
SpecTenant == Init /\ [][NextTenant]_vars

NextOpen ==
    \/ \E r \in ReaderRequests :
          UploadChunked(ReaderRows, r.csrf, r.hdr, r.client_id, r.name, r.size)
    \/ Tick
    \/ Sweep
    \/ \E uuid \in 1..ReaderRows : Delete(uuid)
    \/ \E uuid \in 1..ReaderRows : OpenCheck(uuid)
    \/ OpenLoad

\* open in its two steps, the completeness queries and the loading of the
\* rows, with uploads, the sweeper and delete running between them.
SpecOpen == Init /\ [][NextOpen]_vars

\* The sweeper specification: uploads in chunks and of whole files while the
\* clock of the model can still pass the timeout of the new row, the clock,
\* and the sweeper, which is "invoked repeatedly": a sweeper run that has
\* something to delete is not put off for ever, and neither is the clock.
NextSweep ==
    \/ \E r \in ReaderRequests :
          /\ now + Retention < MaxTime
          /\ UploadChunked(MaxRows, r.csrf, r.hdr, r.client_id, r.name, r.size)
    \/ now + Retention < MaxTime /\ UploadComplete(MaxRows, "s1", "b.bin", MaxByte + 1)
    \/ Tick
    \/ Sweep

SpecSweep == Init /\ [][NextSweep]_vars /\ WF_vars(Sweep) /\ WF_vars(Tick)

\* ------------------------------------------------- properties of the store

\* Two closed ranges share a byte.
RangesIntersect(s1, e1, s2, e2) == s1 <= e2 /\ e1 >= s2

\* Two rows of one upload group: same tenant scope, same upload group id.
SameGroup(c1, c2) ==
    c1.csrf = c2.csrf /\ c1.client_id = c2.client_id /\ c1.client_id # NoneStr

\* The request carries a parsed range with start <= end < total and a payload
\* of the range's length, and an upload id of admissible length.
WellFormed(r) ==
    /\ r.hdr.kind = "bytes" /\ r.hdr.length # Star
    /\ r.hdr.start <= r.hdr.end /\ r.hdr.end < r.hdr.length
    /\ r.size = r.hdr.end - r.hdr.start + 1
    /\ r.client_id # NoneStr /\ r.client_id # LongId

\* C1: a well-formed upload call whose range intersects the range of a chunk
\* stored for the same tenant scope and upload group id fails with
\* "Overlapping chunks", and the table after the call is the table before it.
C1_OverlapRejected ==
    [][\A r \in StoreRequests :
          (/\ UploadChunked(MaxRows, r.csrf, r.hdr, r.client_id, r.name, r.size)
           /\ WellFormed(r)
           /\ \E c \in chunks :
                 /\ c.csrf = r.csrf /\ c.client_id = r.client_id
                 /\ RangesIntersect(r.hdr.start, r.hdr.end, c.start_byte, c.end_byte))
          => (response'.error = "Overlapping chunks" /\ chunks' = chunks)]_vars

\* An overlapping upload was just refused while two chunks are stored.
C1_Witness ==
    /\ response.error = "Overlapping chunks"
    /\ \E c1, c2 \in chunks : c1 # c2 /\ SameGroup(c1, c2)

\* C2: no two stored chunks of one upload group have intersecting ranges.
C2_NoOverlapInGroup ==
    \A c1, c2 \in chunks :
        (c1 # c2 /\ SameGroup(c1, c2))
        => ~RangesIntersect(c1.start_byte, c1.end_byte, c2.start_byte, c2.end_byte)

\* Two adjacent chunks of one group are stored after a chunk of the group was
\* removed (three rows were created, two are left).
C2_Witness ==
    /\ nextId = 4
    /\ \E c1, c2 \in chunks :
          SameGroup(c1, c2) /\ c1.end_byte + 1 = c2.start_byte

\* C4: all stored chunks of one upload group carry the same file_id, and a
\* minted file_id is fresh: chunks that carry the same file_id are of one group.
C4_GroupSharesFileId ==
    \A c1, c2 \in chunks :
        /\ SameGroup(c1, c2) => c1.file_id = c2.file_id
        /\ (c1 # c2 /\ c1.file_id = c2.file_id) => SameGroup(c1, c2)

\* Three chunks of one group were stored with one minted id, the sweeper has
\* removed the first of them, and the two that are left share the id.
C4_Witness ==
    /\ nextId = 4 /\ nextUuid = 2
    /\ \E c1, c2 \in chunks :
          c1 # c2 /\ SameGroup(c1, c2) /\ c1.file_id = c2.file_id /\ c1.id > 1 /\ c2.id > 1

\* C3: under interleaved upload calls no two stored rows of one upload group
\* have intersecting ranges.
C3_NoCollidingWrites ==
    \A c1, c2 \in chunks :
        (c1.id # c2.id /\ SameGroup(c1, c2))
        => ~RangesIntersect(c1.start_byte, c1.end_byte, c2.start_byte, c2.end_byte)

\* C19: a sweeper run deletes the chunks with timeout < now and no other; a
\* chunk is created with timeout = now + Retention and never changed, so that
\* the sweeper removes no chunk before its own retention window has passed,
\* whatever happens to the other chunks of its file.
C19_Sweeper ==
    [][/\ Sweep => chunks' = {c \in chunks : c.timeout >= now}
       /\ \A c \in chunks' \ chunks : c.id = nextId /\ c.timeout = now + Retention
       /\ \A c \in chunks : \A d \in chunks' : c.id = d.id => c = d
       /\ Sweep => \A c \in chunks \ chunks' : now > c.timeout]_vars

\* The sweeper has removed the first chunk of a file and left a later chunk
\* of the same file, whose timeout has not passed.
C19_Witness ==
    /\ response = Returned
    /\ \A c \in chunks : c.id # 1
    /\ \E c \in chunks : c.file_id = 1 /\ c.timeout >= now

\* ------------------------------------------ properties of the reconciler

\* The chunks stored for the group of a request.
GroupOf(r) == {c \in chunks : c.csrf = r.csrf /\ c.client_id = r.client_id}

\* The range of a request intersects no chunk stored for its group.
Disjoint(r) ==
    \A c \in GroupOf(r) :
        ~RangesIntersect(r.hdr.start, r.hdr.end, c.start_byte, c.end_byte)

\* C13: an upload call whose filename differs from that of a chunk stored for
\* its group fails and stores nothing, with "Chunks have inconsistent
\* filenames" when it passes the checks made before; all stored chunks of one
\* upload group have the same filename.
C13_FilenameMismatch ==
    /\ [][\A r \in ReconRequests :
            (/\ \E c \in GroupOf(r) : c.client_filename # r.name
             /\ UploadChunked(ReconRows, r.csrf, r.hdr, r.client_id, r.name, r.size))
            => /\ response'.error # "" /\ chunks' = chunks
               /\ (WellFormed(r) /\ Disjoint(r))
                     => response'.error = "Chunks have inconsistent filenames"]_vars
    /\ [](\A c1, c2 \in chunks : SameGroup(c1, c2) => c1.client_filename = c2.client_filename)

\* An upload under another filename was refused for a group of which a
\* chunk is stored, and nothing else was ever stored.
C13_Witness ==
    /\ response.error = "Chunks have inconsistent filenames"
    /\ nextId = 2
    /\ \E c \in chunks : c.client_id = "g1" /\ c.client_filename = "a.bin"

\* C14: an upload call that declares a total size other than a total size
\* stored for its group fails and stores nothing, with "Inconsistent total
\* size" when it passes the checks made before; all total sizes stored for
\* one upload group are equal.
C14_TotalSizeMismatch ==
    /\ [][\A r \in ReconRequests :
            (/\ r.hdr.kind = "bytes" /\ r.hdr.length # Star
             /\ \E c \in GroupOf(r) : c.total_size # None /\ c.total_size # r.hdr.length
             /\ UploadChunked(ReconRows, r.csrf, r.hdr, r.client_id, r.name, r.size))
            => /\ response'.error # "" /\ chunks' = chunks
               /\ (/\ WellFormed(r) /\ Disjoint(r)
                   /\ \A c \in GroupOf(r) : c.client_filename = r.name)
                     => response'.error = "Inconsistent total size"]_vars
    /\ [](\A c1, c2 \in chunks :
             (SameGroup(c1, c2) /\ c1.total_size # None /\ c2.total_size # None)
             => c1.total_size = c2.total_size)

\* An upload declaring another total size was refused for a group of which
\* a chunk is stored, and nothing else was ever stored.
C14_Witness ==
    /\ response.error = "Inconsistent total size"
    /\ nextId = 2
    /\ \E c \in chunks : c.client_id = "g1" /\ c.total_size = MaxByte + 1

\* The errors of the range checks.
RangeErrors ==
    {"Supplied invalid Content-Range", "End byte exceeds total file size",
     "Invalid start-end byte range"}

\* An upload call with start > end, with end >= the declared total size, or
\* with a payload that has not the length of the range, fails with an error
\* of the range checks whatever is stored, and stores nothing.
C15_InvalidRangeRefused ==
    [][\A r \in ReconRequests :
          (/\ r.hdr.kind = "bytes" /\ r.hdr.length # Star
           /\ \/ r.hdr.start > r.hdr.end
              \/ r.hdr.end >= r.hdr.length
              \/ r.size # r.hdr.end - r.hdr.start + 1
           /\ UploadChunked(ReconRows, r.csrf, r.hdr, r.client_id, r.name, r.size))
          => (response'.error \in RangeErrors /\ chunks' = chunks)]_vars

\* Every stored chunk has end_byte >= start_byte and a payload of
\* end_byte - start_byte + 1 bytes.
C15_StoredRanges ==
    \A c \in chunks :
        c.end_byte >= c.start_byte /\ Len(c.file) = c.end_byte - c.start_byte + 1

\* C15: invalid ranges are refused before any consistency check and nothing
\* is stored; every stored chunk has end_byte >= start_byte and a payload of
\* the length of its range.
C15_InvalidRange == C15_InvalidRangeRefused /\ []C15_StoredRanges

\* C20: delete removes every chunk of the file and no chunk of another file,
\* after which the file does not exist and is not complete; for a file of
\* which no chunk is stored, delete and the size and name queries raise
\* NotFoundError and change nothing.
C20_Delete ==
    [][\A uuid \in 1..ReconRows :
          /\ (ChunksOf(chunks, uuid) # {} /\ Delete(uuid))
                => /\ chunks' = {c \in chunks : c.file_id # uuid}
                   /\ response'.error = ""
                   /\ ChunksOf(chunks', uuid) = {}
                   /\ ~IsComplete(chunks', uuid)
          /\ (/\ ChunksOf(chunks, uuid) = {}
              /\ Delete(uuid) \/ QuerySize(uuid) \/ QueryName(uuid))
                => (response'.error = "NotFoundError" /\ chunks' = chunks)]_vars

\* A file was deleted and chunks of another file are left.
C20_Witness ==
    /\ response = Returned
    /\ chunks # {}
    /\ \E uuid \in 1..ReconRows :
          uuid < nextUuid /\ ChunksOf(chunks, uuid) = {}

\* ---------------------------------------------- properties of the reader

\* The chunks of S are pairwise non-overlapping and cover [0, N): every byte
\* below N lies in exactly one chunk and no chunk reaches N.
Covers(S, N) ==
    /\ \A c \in S : 0 <= c.start_byte /\ c.start_byte <= c.end_byte /\ c.end_byte < N
    /\ \A b \in 0..(N - 1) : \E c \in S : c.start_byte <= b /\ b <= c.end_byte
    /\ \A c1, c2 \in S :
          c1 # c2 => ~RangesIntersect(c1.start_byte, c1.end_byte, c2.start_byte, c2.end_byte)

\* The content of the file the reader was opened on, as the client cut it
\* into chunks, and its length.
ReaderSize == Size(ChunksOf(chunks, reader.uuid))
ReaderContent == Payload(0, ReaderSize)

\* C5: reading a complete file sequentially from offset 0, in reads of any
\* sizes, returns the content of the file: what the reads have returned so
\* far is the content up to the position, and all of it at the end.
C5_RoundTrip ==
    (reader.state = "open" /\ rhist.sequential)
    => /\ rhist.bytes = SubSeq(ReaderContent, 1, reader.file_pointer)
       /\ reader.file_pointer = ReaderSize => rhist.bytes = ReaderContent

\* A file whose last chunk was uploaded first has been read to its end by
\* reads alone, the last of them of one byte.
C5_Witness ==
    /\ reader.state = "open" /\ rhist.sequential
    /\ reader.file_pointer = MaxByte + 1
    /\ rhist.bytes = Payload(0, MaxByte + 1)
    /\ rlast.op = "read" /\ rlast.arg = 1 /\ rlast.err = ""
    /\ \E c1, c2 \in ChunksOf(chunks, reader.uuid) :
          c1.id < c2.id /\ c1.start_byte > c2.start_byte

\* C6: at any point of the reader's life, read(count) right after
\* seek(o, 0) with 0 <= o < size returns the content from offset o to
\* min(o + count, size), also when o lies in the chunk that is open.
C6_SeekThenRead ==
    [][\A count \in 0..MaxCount :
         (/\ reader.state = "open"
          /\ rlast.op = "seek" /\ rlast.from_what = 0 /\ rlast.err = ""
          /\ rlast.arg < ReaderSize
          /\ Read(count))
         => rlast'.out = SubSeq(ReaderContent, rlast.arg + 1,
                                Min(rlast.arg + count, ReaderSize))]_vars

\* C10: read(count) with count >= 1 at a position p < size returns
\* min(count, size - p) bytes and advances the position by the number of
\* bytes returned.
C10_ReadAdvances ==
    [][\A count \in 1..MaxCount :
         (reader.state = "open" /\ reader.file_pointer < ReaderSize /\ Read(count))
         => /\ Len(rlast'.out) = Min(count, ReaderSize - reader.file_pointer)
            /\ reader'.file_pointer = reader.file_pointer + Len(rlast'.out)]_vars

\* C11: read(count) on an open reader at end-of-file returns an empty byte
\* string, leaves the position unchanged and signals no error.
C11_ReadAtEof ==
    [][\A count \in 0..MaxCount :
         (reader.state = "open" /\ reader.file_pointer = ReaderSize /\ Read(count))
         => /\ rlast'.out = <<>>
            /\ rlast'.err = ""
            /\ reader'.file_pointer = reader.file_pointer]_vars

\* The rows of a file are complete: disjoint, covering [0, N), with every
\* declared total size equal to N.
CompleteRows(S) ==
    /\ S # {}
    /\ \E N \in 1..(MaxByte + 2) :
          Covers(S, N) /\ \A c \in S : c.total_size = None \/ c.total_size = N

\* C12: open on a file whose stored chunks are not complete fails with
\* "incomplete upload" and creates no reader; a reader is returned only when
\* the chunks are complete at the time of the call.
C12_OpenNeedsComplete ==
    [][\A uuid \in 1..ReaderRows :
         Open(uuid)
         => IF CompleteRows(ChunksOf(chunks, uuid))
            THEN reader'.state = "open" /\ reader'.uuid = uuid /\ rlast'.err = ""
            ELSE reader' = reader /\ reader.state = "none" /\ rlast'.err = "IOError"]_vars

\* open has been refused for a file of which some chunk is stored.
C12_Witness ==
    /\ rlast.op = "open" /\ rlast.err = "IOError"
    /\ reader.state = "none"
    /\ ChunksOf(chunks, rlast.arg) # {}

\* C16: seek(offset, from_what) on an open reader (a Seek step, whose offset
\* and from_what the record of the call holds) moves the position to
\* offset, position + offset or size + offset when that lies in [0, size],
\* else raises and leaves the position; it neither opens nor closes a payload
\* file and leaves the current chunk.
C16_Seek ==
    [][(reader.state = "open" /\ rlast'.op = "seek" /\ Seek(rlast'.arg, rlast'.from_what))
         => LET offset == rlast'.arg
                from_what == rlast'.from_what
                target == CASE from_what = 0 -> offset
                            [] from_what = 1 -> reader.file_pointer + offset
                            [] from_what = 2 -> ReaderSize + offset
            IN /\ IF 0 <= target /\ target <= ReaderSize
                  THEN reader'.file_pointer = target /\ rlast'.err = ""
                  ELSE reader'.file_pointer = reader.file_pointer /\ rlast'.err = "EOFError"
               /\ handles' = handles
               /\ reader'.current_chunk = reader.current_chunk
               /\ reader'.state = "open"]_vars

\* A seek from the end has moved the position into the file while a payload
\* file is open.
C16_Witness ==
    /\ reader.state = "open"
    /\ rlast.op = "seek" /\ rlast.from_what = 2 /\ rlast.arg < 0 /\ rlast.err = ""
    /\ reader.file_pointer = ReaderSize + rlast.arg
    /\ handles # {}

\* C17: close releases the open payload file; a second close changes nothing
\* and raises nothing; after close, read, seek and tell raise "file closed"
\* and no payload file is open or gets opened.
C17_Close ==
    [][/\ Close => (reader'.state = "closed" /\ handles' = {} /\ rlast'.err = "")
       /\ (reader.state = "closed" /\ Close) => (reader' = reader /\ handles' = handles)
       /\ (/\ reader.state = "closed"
           /\ \/ \E count \in 0..MaxCount : Read(count)
              \/ \E from_what \in 0..2 : \E offset \in (0 - MaxByte - 1)..(MaxByte + 2) :
                    Seek(offset, from_what)
              \/ Tell)
          => (rlast'.err = "IOError" /\ reader' = reader /\ handles' = {})]_vars

\* A read has failed on a reader that was closed after reading.
C17_Witness ==
    /\ reader.state = "closed" /\ handles = {}
    /\ rlast.op = "read" /\ rlast.err = "IOError"
    /\ rhist.sequential /\ reader.file_pointer > 0

\* C18: at most one payload file is open at any time, and a read that moves
\* to another chunk leaves open only that chunk's payload file, positioned at
\* the reader's position less the chunk's start_byte.
C18_OneSourceOpen ==
    /\ [](Cardinality(handles) <= 1)
    /\ [][\A count \in 0..MaxCount :
            (Read(count) /\ reader'.current_chunk # reader.current_chunk)
            => handles' = {[id |-> reader'.current_chunk,
                            pos |-> reader'.file_pointer
                                    - ChunkOf(reader.chunk_list, reader'.current_chunk).start_byte]}]_vars

\* A read has moved from the first chunk of a file to its second.
C18_Witness ==
    /\ reader.state = "open" /\ Len(reader.chunk_list) >= 2
    /\ reader.current_chunk = reader.chunk_list[2].id
    /\ rlast.op = "read" /\ Len(rlast.out) >= 2
    /\ Cardinality(handles) = 1

\* ------------------------------------------------ properties of the size

\* The rows of the file the size specification asks about.
TheFile == ChunksOf(chunks, 1)

ConsistentTotals(S) ==
    \A c1, c2 \in S :
        (c1.total_size # None /\ c2.total_size # None) => c1.total_size = c2.total_size

\* No chunk of S starts at byte 0.
LowestNotAtZero(S) == \A c \in S : c.start_byte # 0

\* Some chunk of S starts after byte 0 where no other chunk has just ended.
NotChained(S) ==
    \E c \in S : c.start_byte # 0 /\ ~\E d \in S \ {c} : d.end_byte + 1 = c.start_byte

\* The chunks of S end before the declared total size.
EndsBeforeTotal(S) ==
    /\ ConsistentTotals(S)
    /\ \E c \in S : c.total_size # None /\ \A d \in S : d.end_byte < c.total_size - 1

OpenEnded(S) ==
    /\ S # {}
    /\ \A c \in S : c.total_size = None
    /\ \E N \in 1..(MaxSizeByte + 2) : Covers(S, N)

Intervals == reader.chunk_list

\* The sum of all interval lengths.
TotalLength ==
    IF Intervals = <<>> THEN 0 ELSE Intervals[Len(Intervals)].end_byte + 1

\* The label a linear scan over the intervals finds for the offset.
LinearScan(offset) ==
    IF \E j \in 1..Len(Intervals) :
          Intervals[j].start_byte <= offset /\ offset <= Intervals[j].end_byte
    THEN Intervals[CHOOSE j \in 1..Len(Intervals) :
                      Intervals[j].start_byte <= offset
                      /\ offset <= Intervals[j].end_byte].id
    ELSE NoLabel

\* C21: a lookup at an offset within 0 .. total - 1 returns the label of the
\* one interval whose prefix sums bracket the offset, as a linear scan finds
\* it, an offset on a boundary resolving to the interval that starts there; a
\* lookup at an offset >= total, and any lookup on the empty map, finds nothing.
C21_LookupIsLinearScan ==
    rlast.op = "lookup" =>
        /\ rlast.out = <<LinearScan(rlast.arg)>>
        /\ \A j \in 1..Len(Intervals) :
              (SumLengths([k \in 1..Len(Intervals) |->
                              Len(Intervals[k].file)], j - 1) <= rlast.arg
               /\ rlast.arg < SumLengths([k \in 1..Len(Intervals) |->
                                             Len(Intervals[k].file)], j))
              => rlast.out = <<j>>
        /\ rlast.arg >= TotalLength => rlast.out = <<NoLabel>>
        /\ rlast.arg < TotalLength => rlast.out # <<NoLabel>>

\* A lookup at the first byte of the third interval of a map has returned
\* that interval, the intervals before it being longer than one byte.
C21_Witness ==
    /\ rlast.op = "lookup" /\ Len(Intervals) = 3
    /\ Intervals[1].end_byte > Intervals[1].start_byte
    /\ rlast.arg = Intervals[3].start_byte
    /\ rlast.out = <<3>>

\* ------------------------------------------ properties of whole-file uploads

\* The upload of a whole file of `size` bytes has added exactly one row, from
\* byte 0 to byte size - 1, of no upload group, with the given total size and
\* a file_id that no stored row carries and that was never handed out.
WholeFileStored(size, total) ==
    /\ response'.error = ""
    /\ \E d \in chunks' \ chunks :
          /\ chunks' = chunks \cup {d}
          /\ d.start_byte = 0 /\ d.end_byte = size - 1
          /\ Len(d.file) = size
          /\ d.total_size = total
          /\ d.client_id = NoneStr
          /\ d.file_id >= nextUuid
          /\ \A c \in chunks : c.file_id # d.file_id
          /\ response'.uuid = d.file_id

\* C22 as claimed: the row of a whole-file upload declares no total size.
C22_WholeFileNoTotal ==
    [][\A size \in ReconSizes :
          UploadComplete(ReconRows, "s1", "c.bin", size)
          => WholeFileStored(size, None)]_vars

\* C22 as the code has it: a whole-file upload of S bytes is stored as one row
\* with start_byte 0, end_byte S - 1, total_size S and no upload group id,
\* under a freshly minted file_id, whatever rows are stored, also rows of the
\* same tenant scope and filename; and it is refused in no state.
C22_WholeFile ==
    /\ [](nextId <= ReconRows
            => \A size \in ReconSizes :
                  ENABLED UploadComplete(ReconRows, "s1", "c.bin", size))
    /\ [][\A size \in ReconSizes :
             UploadComplete(ReconRows, "s1", "c.bin", size)
             => WholeFileStored(size, size)]_vars

\* Two whole files of the same tenant scope and filename are stored, each
\* under its own file_id, the second just uploaded.
C22_Witness ==
    /\ response.error = "" /\ response.filename = "c.bin"
    /\ \E c1, c2 \in chunks :
          /\ c1.csrf = c2.csrf /\ c1.client_filename = c2.client_filename
          /\ c1.client_id = NoneStr /\ c2.client_id = NoneStr
          /\ c1.id < c2.id /\ c1.file_id # c2.file_id
          /\ c2.file_id = response.uuid
          /\ c2.end_byte = MaxByte /\ c2.total_size = MaxByte + 1

\* ------------------------------------------------- properties of the tenants

\* The rows stored under one csrf token.
OwnRows(csrf) == {c \in chunks : c.csrf = csrf}

\* C23: the outcome of an upload call under one tenant scope is its outcome
\* on the table without the rows of every other scope: the same acceptance or
\* the same error, and a file_id that is minted exactly when the group has no
\* row of its own scope and else is one of the group's own; and no two rows
\* of different scopes carry the same file_id.
C23_TenantIsolation ==
    /\ [](\A c1, c2 \in chunks : c1.csrf # c2.csrf => c1.file_id # c2.file_id)
    /\ [][\A r \in TenantRequests :
             UploadChunked(MaxRows, r.csrf, r.hdr, r.client_id, r.name, r.size)
             => LET own == OwnRows(r.csrf)
                    group == {c \in own : c.client_id = r.client_id}
                IN /\ response'.error =
                          ChunkedError(own, r.csrf, r.hdr, r.client_id, r.name, r.size)
                   /\ response'.error = ""
                         => /\ group = {} <=> response'.uuid >= nextUuid
                            /\ group # {}
                                  => response'.uuid \in {c.file_id : c \in group}]_vars

\* A chunk was just accepted under a fresh file_id although a chunk of another
\* tenant scope with the same upload id, another filename and an intersecting
\* range is stored.
C23_Witness ==
    /\ response.error = ""
    /\ \E c1, c2 \in chunks :
          /\ c1.csrf # c2.csrf /\ c1.client_id = c2.client_id
          /\ c1.client_filename # c2.client_filename
          /\ RangesIntersect(c1.start_byte, c1.end_byte, c2.start_byte, c2.end_byte)
          /\ c1.id < c2.id /\ c1.file_id < c2.file_id
          /\ response.uuid = c2.file_id

\* ------------------------------------------- properties of concurrent calls

\* C24: under interleaved upload calls, two stored chunks of one upload group
\* with the same filename and disjoint ranges carry the same file_id.
C24_FirstChunksShareFileId ==
    \A c1, c2 \in chunks :
        (/\ SameGroup(c1, c2)
         /\ c1.client_filename = c2.client_filename
         /\ ~RangesIntersect(c1.start_byte, c1.end_byte, c2.start_byte, c2.end_byte))
        => c1.file_id = c2.file_id

\* C26: if a stored chunk of an upload group declares a total size, every
\* stored chunk of the group ends before it.
C26_ExtentWithinTotal ==
    \A c1, c2 \in chunks :
        (SameGroup(c1, c2) /\ c1.total_size # None) => c2.end_byte < c1.total_size

\* C25: with the sweeper and delete running while a file is opened, every
\* reader that open returns holds a complete list of chunks.
C25_ReaderHoldsCompleteFile ==
    reader.state = "open"
        => CompleteRows({reader.chunk_list[i] : i \in 1..Len(reader.chunk_list)})

\* ------------------------------------------------ properties of the sweeper

\* The row with the primary key i is stored.
Stored(i) == \E c \in chunks : c.id = i

\* C27: with the sweeper run again and again while time advances, every
\* stored chunk is deleted in the end, whether its file is complete or not;
\* and after a sweeper run no chunk whose timeout has passed is stored.
C27_EventuallySwept ==
    /\ \A i \in 1..MaxRows : Stored(i) ~> ~Stored(i)
    /\ [][Sweep => \A c \in chunks' : ~(c.timeout < now)]_vars

\* After the timeout of the rows, the sweeper has emptied a table into which
\* MaxRows rows of two files were uploaded.
C27_Witness ==
    /\ chunks = {} /\ now > Retention
    /\ response = Returned
    /\ nextUuid = 3 /\ nextId = MaxRows + 1

====
